---- MODULE Spec2Model ----
(***************************************************************************)
(* A model of the trip simulation of fatemasoliman/bantime:                *)
(* calculate_eta_with_bans (src/eta_estimator.py) together with the ban    *)
(* catalog lookups of BanAreaManager (src/ban_area_utils.py).              *)
(* The batch entry points (src/eta_api.py, src/eta_cli.py) are modelled    *)
(* over trips whose simulation outcome is given: BatchSpec.                *)
(*                                                                         *)
(* Units.  Instants are whole seconds counted from a Monday 00:00 local    *)
(* time (Asia/Riyadh has no daylight saving, so local clock arithmetic is  *)
(* plain integer arithmetic).  Positions lie on one road axis and are      *)
(* counted in hectometres (100 m); a city polygon is an open interval of   *)
(* that axis, haversine is the absolute difference.  A formatted           *)
(* timestamp '%Y-%m-%d %H:%M' is the number of whole minutes since the     *)
(* same Monday 00:00.  Durations are whole seconds: a fixed speed of       *)
(* 60 km/h gives 6 s per hectometre exactly, a provider duration shared    *)
(* out by distance is rounded to the second.                               *)
(* The conversion of a delay's wait to minutes is modelled on its own, on  *)
(* waits counted in microseconds: WaitSpec.                                 *)
(***************************************************************************)
EXTENDS Integers, Sequences, FiniteSets, TLC

\* ---------------------------------------------------------------- bounds
\* Longest route (number of waypoints) returned by the routing provider.
MaxWaypoints == 3

\* ------------------------------------------------------ program constants
RollingWindowHours == 24
MinRestHours == 14
SampleIntervalKm == 10
DefaultMaxDrivingHours == 10

Hour == 60 * 60
Day == 24 * Hour

HHMM(h, m) == h * Hour + m * 60
HHMMSS(h, m, sec) == h * Hour + m * 60 + sec

\* strftime('%A') names, Monday first (instant 0 is a Monday 00:00).
DayNames == << "Monday", "Tuesday", "Wednesday", "Thursday", "Friday",
               "Saturday", "Sunday" >>

\* ----------------------------------------------------------- small helpers
Min(S) == CHOOSE x \in S : \A y \in S : x <= y
Max2(a, b) == IF a >= b THEN a ELSE b
Min2(a, b) == IF a <= b THEN a ELSE b

RECURSIVE SumSeq(_)
\* Sum of a sequence of integers.
SumSeq(s) == IF s = << >> THEN 0 ELSE Head(s) + SumSeq(Tail(s))

\* datetime helpers
TimeOfDay(t) == t % Day
Weekday(t) == DayNames[((t \div Day) % 7) + 1]
DayStart(t) == t - TimeOfDay(t)

FormatMinute_TimeOnly(t) == TimeOfDay(t) \div 60

\* strftime('%Y-%m-%d %H:%M'): the seconds are dropped.
FormatMinute(t) == t \div 60

\* ----------------------------------------------------------- the catalog
NoCity == ""
NoZone == [city |-> NoCity, time_start |-> 0 - 1, time_end |-> 0 - 1]

\* polygons: city -> polygon, in dict (insertion) order.
\* ban_times: the entries of ban_times.json in file order.
CatalogMorning ==
  [polygons  |-> << [city |-> "A", lo |-> 250, hi |-> 350] >>,
   ban_times |-> << [city |-> "A", day_of_week |-> "Monday",
                     time_start |-> HHMM(6, 0), time_end |-> HHMM(10, 0)] >>]

CatalogOvernight ==
  [polygons  |-> << [city |-> "A", lo |-> 250, hi |-> 350] >>,
   ban_times |-> << [city |-> "A", day_of_week |-> "Monday",
                     time_start |-> HHMM(22, 0), time_end |-> HHMM(2, 0)] >>]

CatalogDaytime ==
  [polygons  |-> << [city |-> "A", lo |-> 250, hi |-> 350] >>,
   ban_times |-> << [city |-> "A", day_of_week |-> "Monday",
                     time_start |-> HHMM(6, 0), time_end |-> HHMM(20, 0)] >>]

\* a window whose end is given as HH:MM:SS
CatalogSeconds ==
  [polygons  |-> << [city |-> "A", lo |-> 250, hi |-> 350] >>,
   ban_times |-> << [city |-> "A", day_of_week |-> "Monday",
                     time_start |-> HHMM(6, 0), time_end |-> HHMMSS(6, 20, 45)] >>]

\* two windows of one city that overlap
CatalogOverlap ==
  [polygons  |-> << [city |-> "A", lo |-> 250, hi |-> 350] >>,
   ban_times |-> << [city |-> "A", day_of_week |-> "Monday",
                     time_start |-> HHMM(6, 0), time_end |-> HHMM(8, 0)],
                    [city |-> "A", day_of_week |-> "Monday",
                     time_start |-> HHMM(7, 0), time_end |-> HHMM(10, 0)] >>]

\* two cities whose areas overlap, each with its own window
CatalogTwoCities ==
  [polygons  |-> << [city |-> "A", lo |-> 250, hi |-> 350],
                    [city |-> "B", lo |-> 200, hi |-> 400] >>,
   ban_times |-> << [city |-> "A", day_of_week |-> "Monday",
                     time_start |-> HHMM(6, 0), time_end |-> HHMM(8, 0)],
                    [city |-> "B", day_of_week |-> "Monday",
                     time_start |-> HHMM(8, 30), time_end |-> HHMM(10, 0)] >>]

CatalogEmpty == [polygons |-> << >>, ban_times |-> << >>]

Catalogs == {CatalogMorning, CatalogOvernight, CatalogDaytime, CatalogSeconds,
             CatalogOverlap, CatalogTwoCities, CatalogEmpty}

\* BanAreaManager.is_in_ban_area: the first city whose polygon contains the point.
is_in_ban_area(polygons, pos) ==
  LET hit == {j \in 1..Len(polygons) : polygons[j].lo < pos /\ pos < polygons[j].hi}
  IN  IF hit = {} THEN NoCity ELSE polygons[Min(hit)].city

BanEntryApplies_AnyDay(ban, city, dt) ==
  /\ ban.city = city
  /\ ban.time_start <= TimeOfDay(dt)
  /\ TimeOfDay(dt) <= ban.time_end

\* The filter of BanAreaManager.get_ban_times on one catalog entry.
BanEntryApplies(ban, city, dt) ==
  /\ ban.city = city
  /\ ban.day_of_week = Weekday(dt)
  /\ ban.time_start <= TimeOfDay(dt)
  /\ TimeOfDay(dt) <= ban.time_end

\* BanAreaManager.get_ban_times: the applicable windows, in catalog order.
get_ban_times(ban_times, city, dt) ==
  IF city = NoCity THEN << >>
  ELSE LET sel == SelectSeq(ban_times, LAMBDA b : BanEntryApplies(b, city, dt))
       IN  [j \in 1..Len(sel) |-> [start |-> sel[j].time_start, end |-> sel[j].time_end]]

\* The test of point_in_any_ban_zone_using_manager on one applicable window.
BanTimeMatches(ban_time, tod) ==
  IF ban_time.start <= ban_time.end
  THEN ban_time.start <= tod /\ tod <= ban_time.end
  ELSE tod >= ban_time.start \/ tod <= ban_time.end

\* point_in_any_ban_zone_using_manager: the zone active at (pos, current_time).
point_in_any_ban_zone_using_manager(cat, pos, t) ==
  LET city  == is_in_ban_area(cat.polygons, pos)
      bans  == get_ban_times(cat.ban_times, city, t)
      match == {j \in 1..Len(bans) : BanTimeMatches(bans[j], TimeOfDay(t))}
  IN  IF city # NoCity /\ match # {}
      THEN [city |-> city, time_start |-> bans[Min(match)].start,
            time_end |-> bans[Min(match)].end]
      ELSE NoZone

BanEndTime_AlwaysNextDay(zone, t) ==
  DayStart(t) + (zone.time_end \div 60) * 60 + Day

\* ban_end_time: current_time.replace(hour, minute, second=0), plus one day
\* for a window that wraps.
BanEndTime(zone, t) ==
  DayStart(t) + (zone.time_end \div 60) * 60
    + (IF zone.time_end <= zone.time_start THEN Day ELSE 0)

\* "if wait_time.total_seconds() > 0": only then a delay is recorded.
MustWait(wait_time) == wait_time > 0

\* ---------------------------------------------------------------- geometry
haversine(a, b) == IF a >= b THEN a - b ELSE b - a

\* p1 + (p2 - p1) * (num / den)
Interpolate(a, b, num, den) == a + ((b - a) * num) \div den

\* timedelta(hours=seg_dist / vehicle_speed_kmph), in seconds
FixedSpeedTime(seg_dist, speed) == (seg_dist * (Hour \div 10)) \div speed

\* ors_total_duration * (seg_dist / total_dist), 0 when the route has no length;
\* timedelta(seconds=...) rounds to its resolution, here the whole second.
OrsShare(total_duration, seg_dist, total_dist) ==
  IF total_dist > 0
  THEN (2 * total_duration * seg_dist + total_dist) \div (2 * total_dist)
  ELSE 0

\* a // b and a % b on timedeltas (b # 0): the quotient is rounded down and the
\* remainder has the sign of b.
FloorDiv(a, b) == IF b > 0 THEN a \div b ELSE (0 - a) \div (0 - b)
PyMod(a, b) == a - b * FloorDiv(a, b)

NSplits_NoRemainder(seg_time, max_drive_td) ==
  Max2(1, seg_time \div max_drive_td)

\* n_splits = max(1, seg_time // max + (1 if seg_time % max > 0 else 0))
NSplits(seg_time, max_drive_td) ==
  Max2(1, FloorDiv(seg_time, max_drive_td)
            + (IF PyMod(seg_time, max_drive_td) > 0 THEN 1 ELSE 0))

SubSegTime_AlwaysMax(seg_time, max_drive_td, n_splits, split_idx) ==
  IF n_splits = 1 THEN seg_time ELSE max_drive_td

\* sub_seg_time of sub-segment split_idx
SubSegTime(seg_time, max_drive_td, n_splits, split_idx) ==
  IF n_splits = 1 THEN seg_time
  ELSE Min2(max_drive_td, seg_time - split_idx * max_drive_td)

\* sub_seg_dist = seg_dist * (sub_seg_time / seg_time), kept as an exact
\* fraction num / den of hectometres.
SubSegDist(seg_dist, seg_time, n_splits, sub_seg_time) ==
  IF n_splits = 1 THEN [num |-> seg_dist, den |-> 1]
  ELSE [num |-> seg_dist * sub_seg_time, den |-> seg_time]

\* ------------------------------------------------------------ duty cycle
\* [d for d in driving_periods if (current_time - d[0]) < timedelta(hours=24)]
PruneWindow_KeepAll(periods, t) == periods

PruneWindow(periods, t) ==
  SelectSeq(periods, LAMBDA d : t - d[1] < RollingWindowHours * Hour)

\* sum((d[2] for d in driving_periods), timedelta())
DrivingTime(periods) == SumSeq([j \in 1..Len(periods) |-> periods[j][3]])

\* driving_time_24h + sub_seg_time > max_drive_td
WouldExceed(driving_time, sub_seg_time, max_drive_td) ==
  driving_time + sub_seg_time > max_drive_td

RestTime_NoFloor(periods, t) ==
  IF periods # << >>
  THEN Min({periods[j][1] : j \in 1..Len(periods)}) + RollingWindowHours * Hour - t
  ELSE MinRestHours * Hour

\* rest_time of lines 202-209
RestTime(periods, t) ==
  LET rest_until == IF periods # << >>
                    THEN Min({periods[j][1] : j \in 1..Len(periods)})
                           + RollingWindowHours * Hour
                    ELSE t + MinRestHours * Hour
      rest_time  == rest_until - t
  IN  IF rest_time < MinRestHours * Hour THEN MinRestHours * Hour ELSE rest_time

\* ------------------------------------------------------------------ inputs
\* Route waypoints (hectometres along the road): 0, 30 km, 108 km, 138 km.
Waypoints == {0, 300, 1080, 1380}

\* geometry returned by the routing provider: any list of 0..MaxWaypoints points
Routes == UNION {[1..n -> Waypoints] : n \in 0..MaxWaypoints}

\* start_datetime: three on the Monday of instant 0, one on the Tuesday
StartTimes == {HHMMSS(5, 50, 30), HHMM(9, 0), HHMM(23, 30), Day + HHMM(9, 0)}

\* (vehicle_speed_kmph, max_driving_hours) as the callers pass them; without a
\* speed the durations come from the provider's total duration.
Configs ==
  { [speed_given |-> TRUE, vehicle_speed_kmph |-> 60,
     max_driving_hours |-> DefaultMaxDrivingHours, ors_total_duration |-> 0],
    [speed_given |-> TRUE, vehicle_speed_kmph |-> 60,
     max_driving_hours |-> 1, ors_total_duration |-> 0],
    [speed_given |-> FALSE, vehicle_speed_kmph |-> 0,
     max_driving_hours |-> DefaultMaxDrivingHours, ors_total_duration |-> 2 * Hour] }

\* ban_radius_km=None: no override (header or option absent).
NoRadius == 0 - 1

\* X-Ban-Radius-Km / --ban-radius-km, in km
RadiusOverrides == {5, 100}

\* Overrides that are not positive: a speed of 0 or below from the header or
\* the command line, max_driving_hours of 0 or below from the command line.
BadConfigs ==
  { [speed_given |-> TRUE, vehicle_speed_kmph |-> 0,
     max_driving_hours |-> DefaultMaxDrivingHours, ors_total_duration |-> 0],
    [speed_given |-> TRUE, vehicle_speed_kmph |-> 0 - 60,
     max_driving_hours |-> DefaultMaxDrivingHours, ors_total_duration |-> 0],
    [speed_given |-> TRUE, vehicle_speed_kmph |-> 60,
     max_driving_hours |-> 0, ors_total_duration |-> 0],
    [speed_given |-> TRUE, vehicle_speed_kmph |-> 60,
     max_driving_hours |-> 0 - 1, ors_total_duration |-> 0],
    [speed_given |-> FALSE, vehicle_speed_kmph |-> 0,
     max_driving_hours |-> 0 - 1, ors_total_duration |-> 2 * Hour] }

\* ------------------------------------------------------------------- state
VARIABLES
  catalog,          \* ban_area_manager (polygons, ban_times)
  route,            \* the provider's geometry for the trip
  start_dt,         \* parsed start_datetime
  config,           \* vehicle_speed_kmph, max_driving_hours, provider duration
  ban_radius_km,    \* the ban_radius_km argument
  pc,               \* position in calculate_eta_with_bans
  seg_durations,    \* provider durations per segment (ORS mode)
  i,                \* segment index of the waypoint loop, 1..len(segments)-1
  seg,              \* p1, p2, seg_dist, seg_time, n_splits of the segment
  split_idx,        \* sub-segment index, 0..n_splits-1
  sub,              \* sub_seg_time, sub_seg_dist, sub_p1, sub_p2
  current_time,
  last_point,
  last_ban_zone,
  driving_periods,  \* tuples (start, end, duration)
  driving_time_24h,
  delays,
  ban_hit,
  point_idx,        \* 1: p1, 2: p2 in "for point in [p1, p2]"
  num_points,
  k,                \* index of the interior sample loop
  schedule,
  result,
  checks,           \* history: every ban lookup made, in order
  drives,           \* history: every sub-segment driven, in order
  entry,            \* the entry point that was called
  trips,            \* the batch handed to a batch entry point
  api_key_given,    \* a provider key is in the header, a trip or the environment
  bpc,              \* position in the entry point
  trip_idx,         \* index of "for trip in trips"
  results,          \* the entry point's results, in insertion order
  td_wait,          \* a delay record's 'wait', a timedelta in microseconds
  td_minutes,       \* the schedule event's wait_minutes for it
  td_serial,        \* the 'wait' the command line writes for it
  fpc               \* position in the conversion of the delay record

trip_vars == << catalog, route, start_dt, config, ban_radius_km, pc, seg_durations, i, seg, split_idx,
                sub, current_time, last_point, last_ban_zone, driving_periods,
                driving_time_24h, delays, ban_hit, point_idx, num_points, k, schedule,
                result, checks, drives >>

batch_vars == << entry, trips, api_key_given, bpc, trip_idx, results >>

wait_vars == << td_wait, td_minutes, td_serial, fpc >>

vars == << trip_vars, batch_vars, wait_vars >>

inputs == << catalog, route, start_dt, config, ban_radius_km >>

NoSeg == [p1 |-> 0, p2 |-> 0, seg_dist |-> 0, seg_time |-> 0, n_splits |-> 1]
NoSub == [sub_seg_time |-> 0, sub_seg_dist |-> [num |-> 0, den |-> 1],
          sub_p1 |-> 0, sub_p2 |-> 0, rested |-> FALSE, rest_hist |-> << >>,
          credited |-> 0]
NoResult == [eta |-> 0 - 1, schedule |-> << >>, delays |-> << >>]

max_drive_td == config.max_driving_hours * Hour
use_ors_durations == ~config.speed_given

\* One call of calculate_eta_with_bans, before its first statement.
CallInit ==
  /\ catalog \in Catalogs
  /\ route \in Routes
  /\ start_dt \in StartTimes
  /\ pc = "start"
  /\ seg_durations = << >>
  /\ i = 1
  /\ seg = NoSeg
  /\ split_idx = 0
  /\ sub = NoSub
  /\ current_time = 0
  /\ last_point = 0
  /\ last_ban_zone = NoZone
  /\ driving_periods = << >>
  /\ driving_time_24h = 0
  /\ delays = << >>
  /\ ban_hit = FALSE
  /\ point_idx = 1
  /\ num_points = 0
  /\ k = 1
  /\ schedule = << >>
  /\ result = NoResult
  /\ checks = << >>
  /\ drives = << >>
  \* the single-trip mode of the command line calls the simulation directly
  /\ entry = "main"
  /\ trips = << >>
  /\ api_key_given = TRUE
  /\ bpc = "call"
  /\ trip_idx = 1
  /\ results = << >>
  \* no delay record is being converted
  /\ td_wait = 0
  /\ td_minutes = 0 - 1
  /\ td_serial = 0 - 1
  /\ fpc = "idle"

Init == CallInit /\ config \in Configs /\ ban_radius_km = NoRadius

\* The same call with an override that is not positive.
BadConfigInit == CallInit /\ config \in BadConfigs /\ ban_radius_km = NoRadius

\* The same call at 60 km/h with a ban radius override.
RadiusInit ==
  /\ CallInit
  /\ config = [speed_given |-> TRUE, vehicle_speed_kmph |-> 60,
               max_driving_hours |-> DefaultMaxDrivingHours, ors_total_duration |-> 0]
  /\ ban_radius_km \in RadiusOverrides

\* A delay record as the sub-segment and end-point checks and the rest rule
\* build it; `src` remembers which code path appended it.
FullDelay(city, wait, now, until, pos, src) ==
  [city |-> city, wait |-> wait, ban_start |-> now, ban_end |-> until,
   eta_at_ban |-> now, stop |-> pos, has_eta_at_ban |-> TRUE, src |-> src]

\* The record of the interior sample check: only 'city' and 'wait'.
SampleDelay(city, wait) ==
  [city |-> city, wait |-> wait, ban_start |-> 0 - 1, ban_end |-> 0 - 1,
   eta_at_ban |-> 0 - 1, stop |-> 0 - 1, has_eta_at_ban |-> FALSE, src |-> "sample"]

\* One ban lookup, for the history.
CheckRecord(kind, pos, now, zone, emitted, until, deduped) ==
  [kind |-> kind, seg |-> i, pos |-> pos, time |-> now, zone |-> zone,
   emitted |-> emitted, wait |-> IF emitted THEN until - now ELSE 0,
   ban_end |-> until, deduped |-> deduped,
   time_after |-> IF emitted /\ kind # "sample" THEN until ELSE now]

\* Lines 96-159: parse the start, fetch the route, initialise the walk.
Start ==
  /\ pc = "start"
  /\ IF route = << >>
     THEN \* segments[0] raises IndexError
          /\ pc' = "raised"
          /\ UNCHANGED << seg_durations, current_time, last_point >>
     ELSE /\ pc' = "loop"
          /\ current_time' = start_dt
          /\ last_point' = route[1]
          /\ seg_durations' =
               IF use_ors_durations
               THEN LET dist(j) == haversine(route[j], route[j + 1])
                        total_dist == SumSeq([j \in 1..(Len(route) - 1) |-> dist(j)])
                    IN  [j \in 1..(Len(route) - 1) |->
                           OrsShare(config.ors_total_duration, dist(j), total_dist)]
               ELSE << >>
  /\ i' = 1
  /\ last_ban_zone' = NoZone
  /\ driving_periods' = << >>
  /\ driving_time_24h' = 0
  /\ delays' = << >>
  /\ schedule' = << >>
  /\ UNCHANGED << batch_vars, wait_vars >>
  /\ UNCHANGED << inputs, seg, split_idx, sub, ban_hit, point_idx, num_points, k,
                  result, checks, drives >>

\* Lines 162-173: the head of the waypoint loop.
BeginSegment ==
  /\ pc = "loop"
  /\ i < Len(route)
  /\ IF (~use_ors_durations /\ config.vehicle_speed_kmph = 0) \/ max_drive_td = 0
     THEN \* seg_dist / 0 or seg_time // timedelta(0) raises ZeroDivisionError
          /\ pc' = "raised"
          /\ UNCHANGED << seg, split_idx >>
     ELSE /\ LET p1 == last_point
                 p2 == route[i + 1]
                 seg_dist == haversine(p1, p2)
                 seg_time == IF use_ors_durations THEN seg_durations[i]
                             ELSE FixedSpeedTime(seg_dist, config.vehicle_speed_kmph)
             IN  seg' = [p1 |-> p1, p2 |-> p2, seg_dist |-> seg_dist,
                         seg_time |-> seg_time,
                         n_splits |-> NSplits(seg_time, max_drive_td)]
          /\ split_idx' = 0
          /\ pc' = "rest"
  /\ UNCHANGED << batch_vars, wait_vars >>
  /\ UNCHANGED << inputs, seg_durations, i, sub, current_time, last_point,
                  last_ban_zone, driving_periods, driving_time_24h, delays, ban_hit,
                  point_idx, num_points, k, schedule, result, checks, drives >>

\* Lines 174-223: the sub-segment, the rolling window, the mandatory rest.
RestCheck ==
  /\ pc = "rest"
  /\ LET sub_seg_time == SubSegTime(seg.seg_time, max_drive_td, seg.n_splits, split_idx)
         sub_p1 == IF seg.n_splits = 1 THEN seg.p1
                   ELSE Interpolate(seg.p1, seg.p2, split_idx, seg.n_splits)
         sub_p2 == IF seg.n_splits = 1 THEN seg.p2
                   ELSE Interpolate(seg.p1, seg.p2, split_idx + 1, seg.n_splits)
         pruned == PruneWindow(driving_periods, current_time)
         exceed == WouldExceed(DrivingTime(pruned), sub_seg_time, max_drive_td)
         rest_time == RestTime(pruned, current_time)
     IN  /\ sub' = [sub_seg_time |-> sub_seg_time,
                    sub_seg_dist |-> SubSegDist(seg.seg_dist, seg.seg_time,
                                                seg.n_splits, sub_seg_time),
                    sub_p1 |-> sub_p1, sub_p2 |-> sub_p2,
                    rested |-> exceed, rest_hist |-> pruned, credited |-> 0]
         /\ IF exceed
            THEN /\ delays' = Append(delays,
                      FullDelay("Rest Stop", rest_time, current_time,
                                current_time + rest_time, sub_p2, "rest"))
                 /\ current_time' = current_time + rest_time
                 /\ driving_periods' = PruneWindow(pruned, current_time + rest_time)
                 /\ driving_time_24h' =
                      DrivingTime(PruneWindow(pruned, current_time + rest_time))
            ELSE /\ driving_periods' = pruned
                 /\ driving_time_24h' = DrivingTime(pruned)
                 /\ UNCHANGED << delays, current_time >>
  /\ pc' = "credit"
  /\ UNCHANGED << batch_vars, wait_vars >>
  /\ UNCHANGED << inputs, seg_durations, i, seg, split_idx, last_point, last_ban_zone,
                  ban_hit, point_idx, num_points, k, schedule, result, checks, drives >>

\* Lines 225-227: the sub-segment is added to the driving history.
CreditDrive ==
  /\ pc = "credit"
  /\ driving_periods' = Append(driving_periods,
        << current_time, current_time + sub.sub_seg_time, sub.sub_seg_time >>)
  /\ driving_time_24h' = driving_time_24h + sub.sub_seg_time
  /\ sub' = [sub EXCEPT !.credited = current_time]
  /\ pc' = "subban"
  /\ UNCHANGED << batch_vars, wait_vars >>
  /\ UNCHANGED << inputs, seg_durations, i, seg, split_idx, current_time, last_point,
                  last_ban_zone, delays, ban_hit, point_idx, num_points, k, schedule,
                  result, checks, drives >>

\* Lines 229-261: the ban check at the sub-segment's end point, with dedup.
SubBanCheck ==
  /\ pc = "subban"
  /\ LET ban_zone == point_in_any_ban_zone_using_manager(catalog, sub.sub_p2, current_time)
         ban_end_time == BanEndTime(ban_zone, current_time)
         wait_time == ban_end_time - current_time
         trigger == ban_zone # NoZone /\ ban_zone # last_ban_zone
         emit == trigger /\ MustWait(wait_time)
     IN  /\ delays' = IF emit
                      THEN Append(delays, FullDelay(ban_zone.city, wait_time, current_time,
                                                    ban_end_time, sub.sub_p2, "sub"))
                      ELSE delays
         /\ current_time' = IF emit THEN current_time + wait_time ELSE current_time
         /\ last_ban_zone' = IF trigger THEN ban_zone ELSE NoZone
         /\ checks' = Append(checks,
               CheckRecord("sub", sub.sub_p2, current_time, ban_zone, emit, ban_end_time,
                           ban_zone # NoZone /\ ban_zone = last_ban_zone))
  /\ pc' = "advance"
  /\ UNCHANGED << batch_vars, wait_vars >>
  /\ UNCHANGED << inputs, seg_durations, i, seg, split_idx, sub, last_point,
                  driving_periods, driving_time_24h, ban_hit, point_idx, num_points, k,
                  schedule, result, drives >>

\* Lines 262-264: the sub-segment is driven.
AdvanceSub ==
  /\ pc = "advance"
  /\ driving_periods' = Append(driving_periods,
        << current_time, current_time + sub.sub_seg_time, sub.sub_seg_time >>)
  /\ current_time' = current_time + sub.sub_seg_time
  /\ last_point' = sub.sub_p2
  /\ drives' = Append(drives,
        [seg |-> i, split_idx |-> split_idx, credited |-> sub.credited,
         start |-> current_time, time |-> sub.sub_seg_time, dist |-> sub.sub_seg_dist,
         from |-> sub.sub_p1, to |-> sub.sub_p2, rested |-> sub.rested,
         max_drive_td |-> max_drive_td])
  /\ IF split_idx + 1 < seg.n_splits
     THEN /\ split_idx' = split_idx + 1
          /\ pc' = "rest"
          /\ UNCHANGED << ban_hit, point_idx >>
     ELSE /\ pc' = "endcheck"
          /\ ban_hit' = FALSE
          /\ point_idx' = 1
          /\ UNCHANGED split_idx
  /\ UNCHANGED << batch_vars, wait_vars >>
  /\ UNCHANGED << inputs, seg_durations, i, seg, sub, last_ban_zone, driving_time_24h,
                  delays, num_points, k, schedule, result, checks >>

\* Lines 266-299: one turn of "for point in [p1, p2]".
EndPointCheck ==
  /\ pc = "endcheck"
  /\ LET point == IF point_idx = 1 THEN seg.p1 ELSE seg.p2
         in_ban == point_in_any_ban_zone_using_manager(catalog, point, current_time)
         ban_end_time == BanEndTime(in_ban, current_time)
         wait_time == ban_end_time - current_time
         emit == in_ban # NoZone /\ MustWait(wait_time)
     IN  /\ delays' = IF emit
                      THEN Append(delays, FullDelay(in_ban.city, wait_time, current_time,
                                                    ban_end_time, point, "end"))
                      ELSE delays
         /\ current_time' = IF emit THEN current_time + wait_time ELSE current_time
         /\ ban_hit' = emit
         /\ checks' = Append(checks,
               CheckRecord("end", point, current_time, in_ban, emit, ban_end_time, FALSE))
         /\ IF emit \/ point_idx = 2
            THEN pc' = "record" /\ UNCHANGED point_idx
            ELSE pc' = "endcheck" /\ point_idx' = 2
  /\ UNCHANGED << batch_vars, wait_vars >>
  /\ UNCHANGED << inputs, seg_durations, i, seg, split_idx, sub, last_point,
                  last_ban_zone, driving_periods, driving_time_24h, num_points, k,
                  schedule, result, drives >>

\* Lines 301-311: the whole segment is added to the driving history; the
\* interior sample loop is entered when the segment is long enough.
RecordSegment ==
  /\ pc = "record"
  /\ driving_periods' = Append(driving_periods,
        << current_time - seg.seg_time, current_time, seg.seg_time >>)
  /\ last_point' = seg.p2
  /\ LET n == seg.seg_dist \div (SampleIntervalKm * 10)
     IN  IF seg.seg_dist > SampleIntervalKm * 10 /\ n > 1
         THEN /\ num_points' = n
              /\ k' = 1
              /\ pc' = "sample"
              /\ UNCHANGED i
         ELSE /\ pc' = "loop"
              /\ i' = i + 1
              /\ UNCHANGED << num_points, k >>
  /\ UNCHANGED << batch_vars, wait_vars >>
  /\ UNCHANGED << inputs, seg_durations, seg, split_idx, sub, current_time,
                  last_ban_zone, driving_time_24h, delays, ban_hit, point_idx, schedule,
                  result, checks, drives >>

\* Lines 311-336: one interior sample point.
SampleCheck ==
  /\ pc = "sample"
  /\ LET point == Interpolate(seg.p1, seg.p2, k, num_points)
         in_ban == point_in_any_ban_zone_using_manager(catalog, point, current_time)
         ban_end_time == BanEndTime(in_ban, current_time)
         wait_time == ban_end_time - current_time
         emit == in_ban # NoZone /\ MustWait(wait_time)
     IN  /\ delays' = IF emit THEN Append(delays, SampleDelay(in_ban.city, wait_time))
                      ELSE delays
         /\ checks' = Append(checks,
               CheckRecord("sample", point, current_time, in_ban, emit, ban_end_time,
                           FALSE))
         /\ IF emit \/ k + 1 >= num_points
            THEN pc' = "loop" /\ i' = i + 1 /\ UNCHANGED k
            ELSE pc' = "sample" /\ k' = k + 1 /\ UNCHANGED i
  /\ UNCHANGED << batch_vars, wait_vars >>
  /\ UNCHANGED << inputs, seg_durations, seg, split_idx, sub, current_time, last_point,
                  last_ban_zone, driving_periods, driving_time_24h, ban_hit, point_idx,
                  num_points, schedule, result, drives >>

\* wait_minutes = int((d['wait'].total_seconds() + 59) // 60)
WaitMinutes(wait) == (wait + 59) \div 60

\* The 'event' value of the schedule entry built for a delay record.
DelayEventKind(d) == "ban"

StartEvent_AtEta ==
  [event |-> "start", time |-> FormatMinute(current_time), stop |-> 0 - 1, city |-> "",
   wait_minutes |-> 0 - 1, ban_arrival |-> 0 - 1, ban_departure |-> 0 - 1,
   end_time |-> 0 - 1]

\* Lines 337-354.
StartEvent ==
  [event |-> "start", time |-> FormatMinute(start_dt), stop |-> 0 - 1, city |-> "",
   wait_minutes |-> 0 - 1, ban_arrival |-> 0 - 1, ban_departure |-> 0 - 1,
   end_time |-> 0 - 1]

DelayEvent(d) ==
  [event |-> DelayEventKind(d), time |-> FormatMinute(d.eta_at_ban), stop |-> d.stop,
   city |-> d.city, wait_minutes |-> WaitMinutes(d.wait),
   ban_arrival |-> FormatMinute(d.eta_at_ban),
   ban_departure |-> FormatMinute(d.eta_at_ban + d.wait), end_time |-> 0 - 1]

EndEvent(now) ==
  [event |-> "end", time |-> FormatMinute(now), stop |-> 0 - 1, city |-> "",
   wait_minutes |-> 0 - 1, ban_arrival |-> 0 - 1, ban_departure |-> 0 - 1,
   end_time |-> FormatMinute(now)]

\* Lines 337-396: the schedule.  d['eta_at_ban'] raises KeyError on a record
\* that has no such key.
BuildSchedule ==
  /\ pc = "loop"
  /\ i >= Len(route)
  /\ LET bad == {j \in 1..Len(delays) : ~delays[j].has_eta_at_ban}
     IN  IF bad = {}
         THEN /\ schedule' = << StartEvent >>
                               \o [j \in 1..Len(delays) |-> DelayEvent(delays[j])]
                               \o << EndEvent(current_time) >>
              /\ pc' = "return"
         ELSE /\ schedule' = << StartEvent >>
                               \o [j \in 1..(Min(bad) - 1) |-> DelayEvent(delays[j])]
              /\ pc' = "raised"
  /\ UNCHANGED << batch_vars, wait_vars >>
  /\ UNCHANGED << inputs, seg_durations, i, seg, split_idx, sub, current_time,
                  last_point, last_ban_zone, driving_periods, driving_time_24h, delays,
                  ban_hit, point_idx, num_points, k, result, checks, drives >>

\* Lines 398-403.
Return ==
  /\ pc = "return"
  /\ result' = [eta |-> current_time, schedule |-> schedule, delays |-> delays]
  /\ pc' = "done"
  /\ UNCHANGED << batch_vars, wait_vars >>
  /\ UNCHANGED << inputs, seg_durations, i, seg, split_idx, sub, current_time,
                  last_point, last_ban_zone, driving_periods, driving_time_24h, delays,
                  ban_hit, point_idx, num_points, k, schedule, checks, drives >>

Next ==
  \/ Start
  \/ BeginSegment
  \/ RestCheck
  \/ CreditDrive
  \/ SubBanCheck
  \/ AdvanceSub
  \/ EndPointCheck
  \/ RecordSegment
  \/ SampleCheck
  \/ BuildSchedule
  \/ Return

Spec == Init /\ [][Next]_vars

BadConfigSpec == BadConfigInit /\ [][Next]_vars

RadiusSpec == RadiusInit /\ [][Next]_vars

Returned == pc = "done"

\* ------------------------------------------------ the batch entry points
\* Longest batch handed to an entry point.
MaxTrips == 3

TripKeys == {"k1", "k2"}

\* One trip of a batch, as far as the entry points look at it: whether it has
\* its 'key', whether its other required fields are there, and what
\* calculate_eta_with_bans does for it ("returned": a result whose schedule
\* ends with the end event, "raised": an exception).
Trips ==
  {[has_key |-> TRUE, key |-> kk, fields_ok |-> TRUE, outcome |-> o] :
      kk \in TripKeys, o \in {"returned", "raised"}}
  \cup {[has_key |-> TRUE, key |-> kk, fields_ok |-> FALSE, outcome |-> "raised"] :
      kk \in TripKeys}
  \cup {[has_key |-> FALSE, key |-> "", fields_ok |-> TRUE, outcome |-> "raised"]}

Batches == UNION {[1..n -> Trips] : n \in 0..MaxTrips}

EntryPoints == {"get_eta", "get_eta_batch", "process_batch"}

BatchInit ==
  /\ entry \in EntryPoints
  /\ trips \in Batches
  /\ api_key_given \in BOOLEAN
  /\ bpc = "request"
  /\ trip_idx = 1
  /\ results = << >>
  \* no delay record is being converted
  /\ td_wait = 0
  /\ td_minutes = 0 - 1
  /\ td_serial = 0 - 1
  /\ fpc = "idle"
  \* no simulation of this model is running: its outcome is part of the trip
  /\ catalog = CatalogEmpty
  /\ route = << >>
  /\ start_dt = 0
  /\ config = [speed_given |-> FALSE, vehicle_speed_kmph |-> 0,
               max_driving_hours |-> DefaultMaxDrivingHours, ors_total_duration |-> 0]
  /\ ban_radius_km = NoRadius
  /\ pc = "idle"
  /\ seg_durations = << >>
  /\ i = 1
  /\ seg = NoSeg
  /\ split_idx = 0
  /\ sub = NoSub
  /\ current_time = 0
  /\ last_point = 0
  /\ last_ban_zone = NoZone
  /\ driving_periods = << >>
  /\ driving_time_24h = 0
  /\ delays = << >>
  /\ ban_hit = FALSE
  /\ point_idx = 1
  /\ num_points = 0
  /\ k = 1
  /\ schedule = << >>
  /\ result = NoResult
  /\ checks = << >>
  /\ drives = << >>

\* The try body of get_eta and get_eta_batch: the arguments are read from the
\* trip (a missing one raises KeyError), then the simulation runs; a returned
\* schedule always holds its end event.
TryTrip(trip) ==
  IF trip.has_key /\ trip.fields_ok /\ trip.outcome = "returned" THEN "eta" ELSE "error"

\* The try body of process_batch: the last argument reads the name `args`,
\* which is local to main, so the call raises NameError when no argument
\* before it has raised KeyError.
TryTripCli(trip) == "error"

\* results.append(...)
ListAdd(res, key, kind) == Append(res, [key |-> key, kind |-> kind])

\* results[key] = ...: a dict keeps one entry per key, at the place of the first.
DictSet(res, key, kind) ==
  IF \E j \in 1..Len(res) : res[j].key = key
  THEN [j \in 1..Len(res) |-> IF res[j].key = key THEN [key |-> key, kind |-> kind]
                              ELSE res[j]]
  ELSE Append(res, [key |-> key, kind |-> kind])

\* get_eta, lines 33-39.
GetEtaRequest ==
  /\ entry = "get_eta"
  /\ bpc = "request"
  /\ bpc' = IF trips = << >> \/ ~api_key_given THEN "refused" ELSE "loop"
  /\ UNCHANGED << entry, trips, api_key_given, trip_idx, results >>
  /\ UNCHANGED << trip_vars, wait_vars >>

\* get_eta, lines 40-57: one trip of the loop.  Both branches of the result and
\* the except handler read trip["key"]; in the handler a KeyError is not caught.
GetEtaTrip ==
  /\ entry = "get_eta"
  /\ bpc = "loop"
  /\ LET trip == trips[trip_idx]
     IN  IF trip.has_key
         THEN /\ results' = ListAdd(results, trip.key, TryTrip(trip))
              /\ trip_idx' = trip_idx + 1
              /\ bpc' = IF trip_idx = Len(trips) THEN "responded" ELSE "loop"
         ELSE /\ bpc' = "crashed"
              /\ UNCHANGED << trip_idx, results >>
  /\ UNCHANGED << entry, trips, api_key_given >>
  /\ UNCHANGED << trip_vars, wait_vars >>

\* get_eta_batch, lines 59-83: the body is validated against BatchETARequest
\* (every TripItem needs key, start_time and the four coordinates) before the
\* function runs.
GetEtaBatchRequest ==
  /\ entry = "get_eta_batch"
  /\ bpc = "request"
  /\ bpc' = IF \E j \in 1..Len(trips) : ~trips[j].has_key \/ ~trips[j].fields_ok
            THEN "invalid"
            ELSE IF trips = << >> \/ ~api_key_given THEN "refused" ELSE "loop"
  /\ UNCHANGED << entry, trips, api_key_given, trip_idx, results >>
  /\ UNCHANGED << trip_vars, wait_vars >>

\* get_eta_batch, lines 85-101: one trip of the loop; results is a dict.
GetEtaBatchTrip ==
  /\ entry = "get_eta_batch"
  /\ bpc = "loop"
  /\ LET trip == trips[trip_idx]
     IN  /\ results' = DictSet(results, trip.key, TryTrip(trip))
         /\ trip_idx' = trip_idx + 1
         /\ bpc' = IF trip_idx = Len(trips) THEN "responded" ELSE "loop"
  /\ UNCHANGED << entry, trips, api_key_given >>
  /\ UNCHANGED << trip_vars, wait_vars >>

\* process_batch, lines 12-19: without trips or key the empty dict is returned.
ProcessBatchStart ==
  /\ entry = "process_batch"
  /\ bpc = "request"
  /\ bpc' = IF trips = << >> \/ ~api_key_given THEN "refused" ELSE "loop"
  /\ UNCHANGED << entry, trips, api_key_given, trip_idx, results >>
  /\ UNCHANGED << trip_vars, wait_vars >>

\* process_batch, lines 20-37: one trip of the loop; results is a dict, and the
\* except handler reads trip["key"].
ProcessBatchTrip ==
  /\ entry = "process_batch"
  /\ bpc = "loop"
  /\ LET trip == trips[trip_idx]
     IN  IF trip.has_key
         THEN /\ results' = DictSet(results, trip.key, TryTripCli(trip))
              /\ trip_idx' = trip_idx + 1
              /\ bpc' = IF trip_idx = Len(trips) THEN "responded" ELSE "loop"
         ELSE /\ bpc' = "crashed"
              /\ UNCHANGED << trip_idx, results >>
  /\ UNCHANGED << entry, trips, api_key_given >>
  /\ UNCHANGED << trip_vars, wait_vars >>

BatchNext ==
  \/ GetEtaRequest
  \/ GetEtaTrip
  \/ GetEtaBatchRequest
  \/ GetEtaBatchTrip
  \/ ProcessBatchStart
  \/ ProcessBatchTrip

BatchSpec == BatchInit /\ [][BatchNext]_vars

\* ------------------------------------------ the wait of a delay record
\* timedelta.total_seconds() counts microseconds.
Micro == 1000 * 1000

MaxWaitMinutes == 20

\* Seconds and microseconds past the whole minute of a wait.
WaitOffsets == {0, 1, Micro \div 2, Micro, 30 * Micro, 59 * Micro, 59 * Micro + 999999}

\* The waits of delay records: positive timedeltas. A ban wait is the window's
\* end, at second 0, minus the clock, and the clock has advanced by
\* timedelta(hours=seg_dist / vehicle_speed_kmph), which has microseconds.
WaitDurations ==
  {m * 60 * Micro + f : m \in 0..MaxWaitMinutes, f \in WaitOffsets} \ {0}

\* int((d['wait'].total_seconds() + 59) // 60), the wait in microseconds
WaitMinutesOf(td) == (td + 59 * Micro) \div (60 * Micro)

WaitInit ==
  /\ td_wait \in WaitDurations
  /\ td_minutes = 0 - 1
  /\ td_serial = 0 - 1
  /\ fpc = "delay"
  \* no trip and no batch of this model is running
  /\ entry = "main"
  /\ trips = << >>
  /\ api_key_given = TRUE
  /\ bpc = "call"
  /\ trip_idx = 1
  /\ results = << >>
  /\ catalog = CatalogEmpty
  /\ route = << >>
  /\ start_dt = 0
  /\ config = [speed_given |-> FALSE, vehicle_speed_kmph |-> 0,
               max_driving_hours |-> DefaultMaxDrivingHours, ors_total_duration |-> 0]
  /\ ban_radius_km = NoRadius
  /\ pc = "idle"
  /\ seg_durations = << >>
  /\ i = 1
  /\ seg = NoSeg
  /\ split_idx = 0
  /\ sub = NoSub
  /\ current_time = 0
  /\ last_point = 0
  /\ last_ban_zone = NoZone
  /\ driving_periods = << >>
  /\ driving_time_24h = 0
  /\ delays = << >>
  /\ ban_hit = FALSE
  /\ point_idx = 1
  /\ num_points = 0
  /\ k = 1
  /\ schedule = << >>
  /\ result = NoResult
  /\ checks = << >>
  /\ drives = << >>

\* eta_estimator.py line 358: the schedule event's wait_minutes.
ScheduleWait ==
  /\ fpc = "delay"
  /\ td_minutes' = WaitMinutesOf(td_wait)
  /\ fpc' = "scheduled"
  /\ UNCHANGED << td_wait, td_serial, trip_vars, batch_vars >>

\* eta_cli.py lines 96-99: the delay's wait as the command line serialises it.
SerializeWait ==
  /\ fpc = "scheduled"
  /\ td_serial' = WaitMinutesOf(td_wait)
  /\ fpc' = "serialized"
  /\ UNCHANGED << td_wait, td_minutes, trip_vars, batch_vars >>

WaitNext ==
  \/ ScheduleWait
  \/ SerializeWait

WaitSpec == WaitInit /\ [][WaitNext]_vars

\* ================================================================== claims

\* C1: for every trip that returns a result, the timestamps of the schedule
\* events, read in schedule order (start, one event per delay record, end),
\* are non-decreasing.
C1_MonotonicTimestamps ==
  Returned =>
    \A j \in 1..(Len(result.schedule) - 1) :
      result.schedule[j].time <= result.schedule[j + 1].time

\* A returned schedule with two delays whose events and end are on later minutes.
C1_Witness ==
  /\ Returned
  /\ Len(result.delays) >= 2
  /\ result.schedule[1].time < result.schedule[2].time
  /\ result.schedule[2].time < result.schedule[3].time
  /\ result.schedule[3].time < result.schedule[4].time

\* C2: a ban check at a point inside a zone whose window wraps past midnight
\* (end <= start), at a time at or after the window start on the zone's
\* weekday, finds the zone, and yields a ban delay with a positive wait that
\* ends at the window end on the next day.
C2_OvernightWindowDetected ==
  \A n \in 1..Len(checks) :
    \A b \in 1..Len(catalog.ban_times) :
      LET c == checks[n]
          w == catalog.ban_times[b]
      IN  ( /\ w.time_end <= w.time_start
            /\ is_in_ban_area(catalog.polygons, c.pos) = w.city
            /\ Weekday(c.time) = w.day_of_week
            /\ TimeOfDay(c.time) >= w.time_start )
          => ( /\ c.zone = [city |-> w.city, time_start |-> w.time_start,
                            time_end |-> w.time_end]
               /\ c.emitted
               /\ c.wait > 0
               /\ c.ban_end = DayStart(c.time) + Day + w.time_end )

\* C3: two consecutive ban checks whose points lie in the same zone with the
\* same window (city, start, end) active emit at most one ban delay record,
\* whatever kind of check each is.
C3_DedupConsecutiveChecks ==
  \A n \in 1..(Len(checks) - 1) :
    ( /\ checks[n].zone # NoZone
      /\ checks[n + 1].zone = checks[n].zone )
    => ~(checks[n].emitted /\ checks[n + 1].emitted)

\* C4: a rest delay record has a wait of exactly
\* max(14 h, oldestIntervalStart + 24 h - now) when the driving history is
\* non-empty at the moment the rest is inserted, exactly 14 h when it is
\* empty, and no rest delay record is shorter than 14 h.
C4_RestWait ==
  /\ \A j \in 1..Len(delays) :
       delays[j].src = "rest" => delays[j].wait >= 14 * Hour
  /\ (pc = "credit" /\ sub.rested) =>
       LET d == delays[Len(delays)]
           h == sub.rest_hist
           oldest == Min({h[j][1] : j \in 1..Len(h)})
       IN  /\ d.src = "rest"
           /\ d.wait = IF h # << >>
                       THEN Max2(14 * Hour, oldest + 24 * Hour - d.eta_at_ban)
                       ELSE 14 * Hour

\* A rest that the 14 h floor decides: the 24 h rule alone would clear sooner.
C4_Witness ==
  /\ pc = "credit"
  /\ sub.rested
  /\ sub.rest_hist # << >>
  /\ delays[Len(delays)].wait = 14 * Hour
  /\ \E j \in 1..Len(sub.rest_hist) :
       sub.rest_hist[j][1] + 24 * Hour - delays[Len(delays)].eta_at_ban < 14 * Hour

\* A rest that the 24 h rule decides.
C4_LongRestReached ==
  pc = "credit" /\ sub.rested /\ delays[Len(delays)].wait > 14 * Hour

\* C5: whenever a sub-segment of duration d is credited at time now, the
\* durations of the sub-segments driven before it whose start is less than
\* 24 h before now, plus d, do not exceed max_driving_hours.
C5_RollingCap ==
  \A n \in 1..Len(drives) :
    LET recent == {m \in 1..(n - 1) :
                     drives[n].credited - drives[m].start < 24 * Hour}
    IN  SumSeq([m \in 1..(n - 1) |-> IF m \in recent THEN drives[m].time ELSE 0])
          + drives[n].time <= max_drive_td

\* C6: a segment of duration T > 0 is driven as ceil(T / M) sub-segments, each
\* of duration <= M, whose durations sum to T (the clock advances by T, waits
\* aside) and whose distances sum to the segment's distance.
C6_SplitConservation ==
  (pc = "endcheck" /\ seg.seg_time > 0) =>
    LET ds == SelectSeq(drives, LAMBDA d : d.seg = i)
        T  == seg.seg_time
        M  == max_drive_td
    IN  /\ Len(ds) = (T + M - 1) \div M
        /\ \A j \in 1..Len(ds) : ds[j].time <= M /\ ds[j].dist.den = ds[1].dist.den
        /\ SumSeq([j \in 1..Len(ds) |-> ds[j].time]) = T
        /\ SumSeq([j \in 1..Len(ds) |-> ds[j].dist.num]) = seg.seg_dist * ds[1].dist.den
        /\ \A j \in 1..(Len(ds) - 1) : ds[j + 1].start >= ds[j].start + ds[j].time
        /\ current_time = ds[Len(ds)].start + ds[Len(ds)].time

\* A segment driven in three sub-segments, the last one shorter.
C6_Witness ==
  /\ pc = "endcheck"
  /\ seg.n_splits = 3
  /\ drives[Len(drives)].time < max_drive_td

\* The setting of C7: one segment at a fixed speed, a catalog of one zone that
\* contains the final waypoint and not the first, whose window [s, e] is on the
\* start weekday; the start is before s and start + transit time lies strictly
\* between s and e on the same day.
C7_Transit == FixedSpeedTime(haversine(route[1], route[2]), config.vehicle_speed_kmph)

C7_Setting ==
  /\ Len(route) = 2
  /\ config.speed_given
  /\ Len(catalog.polygons) = 1
  /\ Len(catalog.ban_times) = 1
  /\ LET z == catalog.polygons[1]
         w == catalog.ban_times[1]
         arrival == start_dt + C7_Transit
     IN  /\ z.city = w.city
         /\ z.lo < route[2] /\ route[2] < z.hi
         /\ ~(z.lo < route[1] /\ route[1] < z.hi)
         /\ w.day_of_week = Weekday(start_dt)
         /\ w.time_start < w.time_end
         /\ TimeOfDay(start_dt) < w.time_start
         /\ DayStart(arrival) = DayStart(start_dt)
         /\ w.time_start < TimeOfDay(arrival)
         /\ TimeOfDay(arrival) < w.time_end

\* The schedule holds exactly one ban event, for that zone, and the end
\* event's timestamp is e on the start day.
C7_Outcome ==
  LET w == catalog.ban_times[1]
      bans == {j \in 1..Len(result.schedule) : result.schedule[j].event = "ban"}
  IN  /\ Cardinality(bans) = 1
      /\ \A j \in bans : result.schedule[j].city = w.city
      /\ result.schedule[Len(result.schedule)].time * 60 = DayStart(start_dt) + w.time_end

WindowInForce(pos, t) ==
  \E a \in 1..Len(catalog.polygons), b \in 1..Len(catalog.ban_times) :
    LET z == catalog.polygons[a]
        w == catalog.ban_times[b]
    IN  /\ z.lo < pos /\ pos < z.hi
        /\ w.city = z.city
        /\ w.day_of_week = Weekday(t)
        /\ IF w.time_start < w.time_end
           THEN w.time_start <= TimeOfDay(t) /\ TimeOfDay(t) <= w.time_end
           ELSE TimeOfDay(t) >= w.time_start \/ TimeOfDay(t) <= w.time_end

C8_Degenerate == Len(route) = 2 /\ route[1] = route[2]

C8_NoDelay ==
  /\ result.schedule[1].time = result.schedule[Len(result.schedule)].time
  /\ result.eta = start_dt
  /\ result.delays = << >>

\* C8 as stated: a route of exactly two identical waypoints gives, for every
\* start time and every catalog, a schedule whose start time equals its end
\* time and an empty delay list.
C8_AsStated == (Returned /\ C8_Degenerate) => C8_NoDelay

\* C8 as amended: the same, when no window of the catalog is in force at the
\* waypoint at the start time.
C8_DegenerateRouteOutsideBan ==
  (Returned /\ C8_Degenerate /\ ~WindowInForce(route[1], start_dt)) => C8_NoDelay

\* The waypoint is inside a zone, whose window is not in force at the start.
C8_Witness ==
  /\ Returned
  /\ C8_Degenerate
  /\ ~WindowInForce(route[1], start_dt)
  /\ is_in_ban_area(catalog.polygons, route[1]) # NoCity
  /\ catalog.ban_times # << >>
  /\ Len(checks) = 3

\* The shape of every returned schedule: one start event first, one event per
\* delay record in the order of the delay list, one end event last.
C9_Shape ==
  LET sch == result.schedule
      n   == Len(sch)
  IN  /\ n = Len(result.delays) + 2
      /\ sch[1].event = "start"
      /\ sch[n].event = "end"
      /\ \A j \in 1..Len(result.delays) :
           /\ sch[j + 1].event \notin {"start", "end"}
           /\ sch[j + 1].city = result.delays[j].city
           /\ sch[j + 1].stop = result.delays[j].stop
           /\ sch[j + 1].time = result.delays[j].eta_at_ban \div 60
      /\ result.eta = current_time

\* C9 as stated: every returned schedule has that shape, the start event's
\* time is the trip's initial instant and the end event's time is the final
\* clock value, the returned eta.
C9_AsStated ==
  Returned =>
    /\ C9_Shape
    /\ result.schedule[1].time * 60 = start_dt
    /\ result.schedule[Len(result.schedule)].time * 60 = result.eta

\* C9 as amended: every returned schedule has that shape, the start event's
\* time is the initial instant with its seconds dropped and the end event's
\* time is the returned eta with its seconds dropped.
C9_ScheduleShape ==
  Returned =>
    /\ C9_Shape
    /\ result.schedule[1].time = start_dt \div 60
    /\ result.schedule[Len(result.schedule)].time = result.eta \div 60

\* A returned schedule with delays whose eta is later than the start and is
\* not on a whole minute.
C9_Witness ==
  /\ Returned
  /\ Len(result.delays) >= 2
  /\ result.eta > start_dt
  /\ result.eta % 60 # 0

\* C10: every mandatory rest appears in the schedule as an event of kind
\* "rest", distinct from the "ban" kind of curfew waits.
C10_RestEventKind ==
  Returned =>
    \A j \in 1..Len(result.delays) :
      result.delays[j].src = "rest" => result.schedule[j + 1].event = "rest"

\* C11: in every batch entry point a batch of N trips yields exactly one
\* result per input trip, an ETA or an explicit error, in the order of the
\* trips; no trip (one without its key or another field, one whose simulation
\* fails, two with the same key) makes the entry point reject or crash the
\* batch or lose another trip's result.
C11_OneResultPerTrip ==
  /\ bpc \notin {"invalid", "crashed"}
  /\ bpc = "responded" =>
       /\ Len(results) = Len(trips)
       /\ \A j \in 1..Len(trips) :
            /\ results[j].key = trips[j].key
            /\ results[j].kind \in {"eta", "error"}

\* C12: a route of 0 or 1 waypoints never makes the simulation raise; it
\* returns a schedule of a start event and an end event with equal times, and
\* no delays.
C12_ShortRouteDegenerate ==
  Len(route) < 2 =>
    /\ pc # "raised"
    /\ Returned =>
         /\ Len(result.schedule) = 2
         /\ result.schedule[1].event = "start"
         /\ result.schedule[2].event = "end"
         /\ result.schedule[1].time = result.schedule[2].time
         /\ result.delays = << >>

\* The caller gave a speed override or a max-driving-hours value that is not
\* positive.
NonPositiveOverride ==
  \/ config.speed_given /\ config.vehicle_speed_kmph <= 0
  \/ config.max_driving_hours <= 0

\* C13: a call with a non-positive speed or max-driving-hours override is
\* rejected before any simulation step: the walk over the route is never
\* entered, no sub-segment is driven, no delay is recorded, the clock never
\* leaves the start instant, and no schedule is returned.
C13_BadConfigRejected ==
  NonPositiveOverride =>
    /\ pc \in {"start", "raised"}
    /\ drives = << >>
    /\ delays = << >>
    /\ current_time \in {0, start_dt}
    /\ ~Returned

\* The centre of a city's area on the road axis.
ZoneCentre(z) == (z.lo + z.hi) \div 2

\* C14: a ban radius override given by the caller is the radius of the zone
\* containment test: at every ban check the point is treated as inside a
\* city's ban area exactly when it lies within ban_radius_km of the area's
\* centre.
C14_RadiusOverrideUsed ==
  ban_radius_km # NoRadius =>
    \A n \in 1..Len(checks) :
      \A a \in 1..Len(catalog.polygons) :
        LET z == catalog.polygons[a]
        IN  (is_in_ban_area(catalog.polygons, checks[n].pos) = z.city)
              <=> (haversine(checks[n].pos, ZoneCentre(z)) <= ban_radius_km * 10)

\* C15: each driven sub-segment is in the driving history exactly once, as
\* (start, start + duration) with start the time of its credit, so at every
\* rest decision the driving time that is compared with the maximum is the sum
\* of the durations of the sub-segments driven so far that were credited less
\* than 24 h before the decision.
C15_HistoryOncePerSubSegment ==
  pc = "credit" =>
    LET now    == IF sub.rested THEN delays[Len(delays)].eta_at_ban ELSE current_time
        recent == SelectSeq(drives, LAMBDA d : now - d.credited < 24 * Hour)
    IN  /\ Len(sub.rest_hist) = Len(recent)
        /\ \A j \in 1..Len(recent) :
             sub.rest_hist[j] = << recent[j].credited, recent[j].credited + recent[j].time,
                                   recent[j].time >>
        /\ DrivingTime(sub.rest_hist) = SumSeq([j \in 1..Len(recent) |-> recent[j].time])

\* C16: the ban check of a sub-segment is made for the sub-segment's end point
\* with the clock value of the arrival there: the time of the credit plus the
\* sub-segment's duration.
C16_BanCheckAtArrival ==
  pc = "advance" =>
    LET c == checks[Len(checks)]
    IN  /\ c.kind = "sub"
        /\ c.pos = sub.sub_p2
        /\ c.time = sub.credited + sub.sub_seg_time

\* C17: when an interior sample point lies in a zone that is active at the
\* check with a positive wait, and neither end point of the segment is inside a
\* ban area, the trip is delayed as for an end-point hit: the delay record is
\* complete, the clock is advanced by the wait, and the run does not raise but
\* returns a schedule that holds the ban event.
C17_SampleHitDelaysTrip ==
  \A n \in 1..Len(checks) :
    LET c == checks[n]
    IN  ( /\ c.kind = "sample"
          /\ c.zone # NoZone
          /\ c.ban_end - c.time > 0
          /\ is_in_ban_area(catalog.polygons, route[c.seg]) = NoCity
          /\ is_in_ban_area(catalog.polygons, route[c.seg + 1]) = NoCity )
        => ( /\ c.emitted
             /\ c.time_after = c.ban_end
             /\ \E j \in 1..Len(delays) :
                  /\ delays[j].city = c.zone.city
                  /\ delays[j].wait = c.ban_end - c.time
                  /\ delays[j].has_eta_at_ban
                  /\ delays[j].eta_at_ban = c.time
                  /\ delays[j].ban_end = c.ban_end
             /\ pc # "raised"
             /\ Returned =>
                  \E j \in 1..Len(result.schedule) :
                    /\ result.schedule[j].event = "ban"
                    /\ result.schedule[j].city = c.zone.city )

\* C18: once a waypoint pair is completely processed, the clock is not inside
\* a window (start <= clock time < end, on the clock's weekday) of a city whose
\* area contains the pair's end point.
C18_NoDepartureUnderCurfew ==
  (pc = "loop" /\ i > 1) =>
    \A a \in 1..Len(catalog.polygons), b \in 1..Len(catalog.ban_times) :
      LET z == catalog.polygons[a]
          w == catalog.ban_times[b]
      IN  ( /\ z.lo < route[i] /\ route[i] < z.hi
            /\ w.city = z.city
            /\ w.day_of_week = Weekday(current_time) )
          => ~(w.time_start <= TimeOfDay(current_time)
                 /\ TimeOfDay(current_time) < w.time_end)

\* The duration of segment j of the route, as the walk computes it.
SegmentDuration(j) ==
  IF use_ors_durations THEN seg_durations[j]
  ELSE FixedSpeedTime(haversine(route[j], route[j + 1]), config.vehicle_speed_kmph)

\* C19: for every run that returns a result, the returned eta minus the start
\* instant is the sum of the durations of all segments plus the sum of the
\* waits of all records of the returned delay list.
C19_EtaAccounting ==
  Returned =>
    result.eta - start_dt
      = SumSeq([j \in 1..(Len(route) - 1) |-> SegmentDuration(j)])
          + SumSeq([j \in 1..Len(result.delays) |-> result.delays[j].wait])

\* A returned run over two segments, one of them split, with a rest and a ban
\* wait in its delay list.
C19_Witness ==
  /\ Returned
  /\ Len(route) = 3
  /\ \E j \in 1..Len(drives) : drives[j].split_idx > 0
  /\ \E j \in 1..Len(result.delays) : result.delays[j].src = "rest"
  /\ \E j \in 1..Len(result.delays) : result.delays[j].src \in {"sub", "end"}

\* The window end of a found zone on the calendar date of the check, one day
\* later when the window wraps (end <= start).
ResolvedEnd(c) ==
  DayStart(c.time) + c.zone.time_end
    + (IF c.zone.time_end <= c.zone.time_start THEN Day ELSE 0)

\* C20: every ban delay record has a wait > 0; a check that finds a zone (and
\* is not suppressed as a repeat of the previous zone) with
\* resolvedEnd - currentTime > 0 records exactly that wait and leaves the clock
\* at resolvedEnd; with a wait <= 0 it records nothing and leaves the clock
\* unchanged.
C20_BanWaitToWindowEnd ==
  /\ \A j \in 1..Len(delays) : delays[j].src # "rest" => delays[j].wait > 0
  /\ \A n \in 1..Len(checks) :
       LET c == checks[n]
       IN  (c.zone # NoZone /\ ~c.deduped) =>
             IF ResolvedEnd(c) - c.time > 0
             THEN /\ c.emitted
                  /\ c.wait = ResolvedEnd(c) - c.time
                  /\ c.time_after = ResolvedEnd(c)
             ELSE /\ ~c.emitted
                  /\ c.time_after = c.time

\* The catalog entries with a non-wrapping window that match (pos, t): the
\* area of the entry's city contains pos, the entry is for t's weekday, and
\* start <= t's clock time <= end.
MatchingEntries(pos, t) ==
  {b \in 1..Len(catalog.ban_times) :
     LET w == catalog.ban_times[b]
     IN  /\ w.time_start <= w.time_end
         /\ \E a \in 1..Len(catalog.polygons) :
              /\ catalog.polygons[a].city = w.city
              /\ catalog.polygons[a].lo < pos
              /\ pos < catalog.polygons[a].hi
         /\ w.day_of_week = Weekday(t)
         /\ w.time_start <= TimeOfDay(t)
         /\ TimeOfDay(t) <= w.time_end}

\* C21: for non-wrapping windows, every lookup returns a zone exactly when
\* some catalog entry matches the point and the time, and the zone returned is
\* the first matching entry in catalog order, also where the areas of two
\* cities both contain the point.
C21_LookupFirstMatch ==
  \A n \in 1..Len(checks) :
    LET c == checks[n]
        m == MatchingEntries(c.pos, c.time)
    IN  c.zone = IF m = {} THEN NoZone
                 ELSE [city |-> catalog.ban_times[Min(m)].city,
                       time_start |-> catalog.ban_times[Min(m)].time_start,
                       time_end |-> catalog.ban_times[Min(m)].time_end]

\* C22: the last-triggered zone is cleared only by a sub-segment ban check
\* that finds no zone: after a check that finds a zone, the same as the last
\* triggered one or another, last_ban_zone holds the zone found.
C22_LastTriggeredKept ==
  pc = "advance" =>
    LET c == checks[Len(checks)]
    IN  /\ c.kind = "sub"
        /\ c.zone # NoZone => last_ban_zone = c.zone
        /\ c.zone = NoZone => last_ban_zone = NoZone

\* Absolute value.
Abs(x) == IF x >= 0 THEN x ELSE 0 - x

\* C23: when a segment is split, all its sub-segments have the same duration,
\* and the end point of each lies at the fraction of the segment that equals
\* the fraction of the segment's duration driven up to there (to the
\* hectometre).
C23_EqualSplit ==
  (pc = "endcheck" /\ seg.n_splits > 1) =>
    LET ds == SelectSeq(drives, LAMBDA d : d.seg = i)
        cum(j) == SumSeq([m \in 1..j |-> ds[m].time])
    IN  \A j \in 1..Len(ds) :
          /\ ds[j].time = ds[1].time
          /\ Abs((ds[j].to - seg.p1) * seg.seg_time - (seg.p2 - seg.p1) * cum(j))
               < seg.seg_time

\* The positions ban-checked while segment j was walked, with its end points.
CheckedPoints(j) ==
  {seg.p1, seg.p2} \cup {checks[n].pos : n \in {m \in 1..Len(checks) : checks[m].seg = j}}

\* C24: once a segment longer than the sampling interval has been walked, at
\* least one point strictly inside it has been ban-checked, and every checked
\* point of the segment but the farthest has another checked point at most
\* the sampling interval farther along.
C24_SampleSpacing ==
  (pc = "loop" /\ i > 1 /\ seg.seg_dist > SampleIntervalKm * 10) =>
    LET P == CheckedPoints(i - 1)
    IN  /\ \E x \in P : Min2(seg.p1, seg.p2) < x /\ x < Max2(seg.p1, seg.p2)
        /\ \A x \in P :
             x < Max2(seg.p1, seg.p2) =>
               \E y \in P : x < y /\ y - x <= SampleIntervalKm * 10

\* C25: when the rest condition is evaluated, and again right after a rest has
\* advanced the clock, every interval of the driving history starts less than
\* 24 hours before the clock value of that moment.
C25_HistoryPruned ==
  pc = "credit" =>
    LET asked == IF sub.rested THEN delays[Len(delays)].eta_at_ban ELSE current_time
    IN  /\ \A j \in 1..Len(sub.rest_hist) :
             asked - sub.rest_hist[j][1] < RollingWindowHours * Hour
        /\ sub.rested =>
             \A j \in 1..Len(driving_periods) :
               current_time - driving_periods[j][1] < RollingWindowHours * Hour

\* A rest has just been taken and the pruning after it dropped an interval
\* that was still inside the window when the condition was evaluated.
C25_Witness ==
  /\ pc = "credit"
  /\ sub.rested
  /\ Len(driving_periods) < Len(sub.rest_hist)

\* C26: the wait_minutes reported for a delay record is its wait rounded up
\* to the minute, the smallest integer m with m * 60 seconds >= wait, whether
\* or not the wait has a fractional number of seconds; the command line
\* serialises the wait the same way.
C26_WaitRoundedUp ==
  /\ fpc \in {"scheduled", "serialized"} =>
       /\ td_minutes * 60 * Micro >= td_wait
       /\ (td_minutes - 1) * 60 * Micro < td_wait
  /\ fpc = "serialized" =>
       /\ td_serial * 60 * Micro >= td_wait
       /\ (td_serial - 1) * 60 * Micro < td_wait

\* The city has a ban area that contains the position.
InArea(city, pos) ==
  \E n \in 1..Len(catalog.polygons) :
    /\ catalog.polygons[n].city = city
    /\ catalog.polygons[n].lo < pos
    /\ pos < catalog.polygons[n].hi

\* C27: the location of a delay record is where the vehicle is while it waits.
\* A rest or a ban wait taken before a sub-segment is driven is located at the
\* sub-segment's start point, a ban wait taken after the segment is driven at
\* the segment's end point, and a ban wait is charged only for an area that
\* contains that position.
C27_DelayWhereVehicleIs ==
  /\ (pc = "credit" /\ sub.rested) =>
       delays[Len(delays)].stop = sub.sub_p1
  /\ (pc = "advance" /\ checks[Len(checks)].emitted) =>
       /\ delays[Len(delays)].stop = sub.sub_p1
       /\ InArea(delays[Len(delays)].city, sub.sub_p1)
  /\ (pc = "record" /\ ban_hit) =>
       /\ delays[Len(delays)].stop = seg.p2
       /\ InArea(delays[Len(delays)].city, seg.p2)

\* C28: the batch mode of the command line returns an 'eta' entry, not an
\* 'error' entry, for every trip whose fields are there and whose simulation,
\* run with the max driving hours of the command line, returns (the entry of
\* a key is that of the last trip with the key).
C28_CliBatchEta ==
  (entry = "process_batch" /\ bpc = "responded") =>
    \A j \in 1..Len(trips) :
      ( /\ trips[j].has_key
        /\ trips[j].fields_ok
        /\ trips[j].outcome = "returned"
        /\ \A m \in (j + 1)..Len(trips) : trips[m].key # trips[j].key )
      => \E n \in 1..Len(results) :
           /\ results[n].key = trips[j].key
           /\ results[n].kind = "eta"

====
